---- MODULE Spec2Model ----
(***************************************************************************)
(* Model of the recording popup of dictara                                 *)
(* (src/src/components/recording/RecordingPopup.tsx and                    *)
(* src/src/hooks/useRecording.ts).                                         *)
(*                                                                         *)
(* The popup is one React component instance.  Its state is the useState   *)
(* cells, the useRef cells, the timers and animation frames it has asked   *)
(* the browser for, the event subscriptions it holds at the backend and    *)
(* the mutations (backend commands) it has in flight.  The backend is an   *)
(* external collaborator: it may emit any lifecycle event at any time on   *)
(* a subscription that exists, and may answer any command with success or  *)
(* failure.                                                                *)
(*                                                                         *)
(* React semantics used below: a state setter called after the component   *)
(* unmounted is ignored and effects no longer run; refs, timers and        *)
(* mutations keep working.                                                 *)
(***************************************************************************)
EXTENDS Integers, FiniteSets, Sequences, TLC

\* ------------------------------------------------------------------ bounds
TimeStep == 300000     \* granularity of the wall clock, in ms
MaxClockSteps == 2     \* the wall clock stops after this many advances
MaxHandles == 2        \* timer / animation-frame handles the browser hands out
MaxFrames == 1         \* animation frames that run since mount
MaxSmoothFrames == 6   \* the same, where only the smoothing runs
MaxSaves == 2          \* save-app-config calls in flight at once

\* --------------------------------------------------------------- constants
MAX_RECORDING_DURATION_MS == 10 * 60 * 1000

Null == [set |-> FALSE, can_retry |-> FALSE]    \* the null error payload
None == 0               \* an undefined handle ref (falsy in the source)
Undefined == -1         \* startTimeRef.current === undefined

Handles == 1..MaxHandles
Levels == {0, 1}        \* raw audio levels pushed by the backend

\* RecordingErrorPayload: only can_retry steers control flow; error_type,
\* error_message, user_message and audio_file_path are display strings.
Payloads == {[set |-> TRUE, can_retry |-> b] : b \in BOOLEAN}

LifecycleEvents ==
  <<"recording-started", "recording-transcribing", "recording-stopped",
    "recording-cancelled", "recording-error">>

Commands == {"cancel", "stop", "retry", "dismiss"}

VARIABLES
  \* useState cells
  recording, transcribing, error, audioLevel, smoothedLevel, elapsedMs,
  \* useRef cells
  animationFrameRef, startTimeRef, timerIntervalRef,
  \* browser: live setInterval handles, live requestAnimationFrame handles, clock
  intervals, frames, now,
  \* component lifecycle and backend registrations
  mounted, setupPc, cleanup, subs, channel,
  \* useMutation observers: isPending of each command, and the calls of each
  \* command the backend has not answered yet (oldest first, by who made them)
  isPending, inFlight,
  \* history (not read by any action guard or state update of the popup)
  lastEvent, restarted, autoStops, stopElapsed, disturbed, dismissStage, lastInvoked, failed

popupVars == <<recording, transcribing, error, audioLevel, smoothedLevel, elapsedMs>>
refVars == <<animationFrameRef, startTimeRef, timerIntervalRef>>
timerVars == <<startTimeRef, timerIntervalRef, intervals, elapsedMs>>
frameVars == <<animationFrameRef, frames, smoothedLevel>>
setupVars == <<setupPc, cleanup, subs, channel>>
mutationVars == <<isPending, inFlight>>
histVars == <<lastEvent, restarted, autoStops, stopElapsed, disturbed, dismissStage, lastInvoked, failed>>

\* ---------------------------------------------- the API-keys settings view
Providers == {"open_ai", "azure_open_ai"}
NoProvider == "null"

VARIABLES
  \* ApiKeys: useState / useRef cells
  activeProvider, isInitialized,
  \* query data: the app config, and the saved config of each provider
  config, existingConfig,
  \* what the backend stores: the active provider, which providers have a config
  storedProvider, storedConfig,
  \* save-app-config calls not answered yet (oldest first), whether the
  \* mutation observer still watches the latest one, pending delete calls
  saves, savePending, deletePending,
  \* history: the toggle made and the call answered in the last step
  toggled, settled

apiKeysVars == <<activeProvider, isInitialized, config, existingConfig,
                 storedProvider, storedConfig, saves, savePending, deletePending,
                 toggled, settled>>

\* ------------------------------------------------- the provider forms
\* What a form holds: "" stands for every input its field validators reject
\* (empty, too short, wrong prefix), the keys for two inputs they accept.
Keys == {"sk-A", "sk-B"}
FieldValues == {""} \cup Keys
NoKey == "none"

VARIABLES
  \* form state of each provider section: the field values, isSubmitting
  fieldValue, isSubmitting,
  \* where handleSubmit of each form stands: "idle", "validating" (the test
  \* command is out), "saving" (the save command is out)
  submitPc,
  \* the arguments of the test and of the save command in flight
  testParams, saveParams,
  \* useState saveSuccess
  saveSuccess,
  \* what the backend stores for each provider
  storedKey,
  \* history: the test command answered in the last step
  lastTest

formVars == <<fieldValue, isSubmitting, submitPc, testParams, saveParams, saveSuccess,
              storedKey, lastTest>>

\* ------------------------------------------------- the onboarding wizard
NullStep == "null"
STEP_ORDER == <<"welcome", "accessibility", "api_keys", "fn_hold", "fn_space", "complete">>
Steps == {STEP_ORDER[i] : i \in 1..Len(STEP_ORDER)}
IndexRoute == "/onboarding/"

VARIABLES
  \* the router's location, the backend's current_step, the onboardingConfig
  \* query data ("loading" before the first answer)
  route, storedStep, onboardingConfig,
  \* the goToStep call waiting for save-onboarding-step
  navCall,
  \* the Next button's nextDisabled on the step shown
  nextDisabled,
  \* history: the goToStep call that finished in the last step
  navSettled

onboardingVars == <<route, storedStep, onboardingConfig, navCall, nextDisabled, navSettled>>

otherViews == <<apiKeysVars, formVars, onboardingVars>>

popupState == <<recording, transcribing, error, audioLevel, smoothedLevel, elapsedMs,
          animationFrameRef, startTimeRef, timerIntervalRef,
          intervals, frames, now,
          mounted, setupPc, cleanup, subs, channel,
          isPending, inFlight,
          lastEvent, restarted, autoStops, stopElapsed, disturbed, dismissStage, lastInvoked, failed>>

vars == <<popupState, otherViews>>

\* ------------------------------------------------------------------ helpers
Max(a, b) == IF a >= b THEN a ELSE b

RECURSIVE Pow20(_)
Pow20(k) == IF k = 0 THEN 1 ELSE 20 * Pow20(k - 1)

\* the handle the browser returns: one that is not live
NewHandle(live) == CHOOSE h \in Handles \ live : \A g \in Handles \ live : h <= g

\* a state setter: ignored once the component is unmounted
SetState(old, new) == IF mounted THEN new ELSE old

\* ------------------------------------------------------------------- render
ErrorShown == error # Null
TranscribingShown == transcribing /\ error = Null
RecordingShown == recording /\ error = Null /\ ~transcribing

Rendered ==
  IF mounted
  THEN {v \in {"ErrorState", "Transcribing", "Recording"} :
          \/ v = "ErrorState" /\ ErrorShown
          \/ v = "Transcribing" /\ TranscribingShown
          \/ v = "Recording" /\ RecordingShown}
  ELSE {}

\* Session State as the three flags determine it (also before/after unmount)
View ==
  IF ErrorShown THEN "ErrorState"
  ELSE IF TranscribingShown THEN "Transcribing"
  ELSE IF RecordingShown THEN "Recording"
  ELSE "Blank"

\* the Retry control is part of the error view only for a retryable error
RetryOfferedAlways == TRUE
RetryOffered == error.can_retry

\* ------------------------------------------------------------- formatTime
\* a string is the sequence of its characters
DigitChars == <<"0", "1", "2", "3", "4", "5", "6", "7", "8", "9">>

\* Number.prototype.toString of a non-negative integer
RECURSIVE toString(_)
toString(n) ==
  IF n < 10 THEN <<DigitChars[n + 1]>>
  ELSE toString(n \div 10) \o <<DigitChars[(n % 10) + 1]>>

\* String.prototype.padStart(targetLength, padChar)
RECURSIVE PadStart(_, _, _)
PadStart(str, targetLength, padChar) ==
  IF Len(str) >= targetLength THEN str
  ELSE PadStart(<<padChar>> \o str, targetLength, padChar)

formatTimeMinutesFromMs(ms) ==
  LET totalSeconds == ms \div 1000
      minutes == ms \div 60
      seconds == totalSeconds % 60
  IN PadStart(toString(minutes), 2, "0") \o <<":">> \o PadStart(toString(seconds), 2, "0")
formatTime(ms) ==
  LET totalSeconds == ms \div 1000
      minutes == totalSeconds \div 60
      seconds == totalSeconds % 60
  IN PadStart(toString(minutes), 2, "0") \o <<":">> \o PadStart(toString(seconds), 2, "0")

\* the countdown text of the recording view
TimerText == formatTime(elapsedMs)

\* -------------------------------------------------------------------- timer
\* cleanupTimer: the timer cells after the helper ran
cleanupTimerKeepsInterval ==
  [timerIntervalRef |-> None,
   intervals |-> intervals,
   startTimeRef |-> startTimeRef,
   elapsedMs |-> elapsedMs]
cleanupTimer ==
  [timerIntervalRef |-> None,
   intervals |-> IF timerIntervalRef # None THEN intervals \ {timerIntervalRef}
                 ELSE intervals,
   startTimeRef |-> Undefined,
   elapsedMs |-> SetState(elapsedMs, 0)]

\* the interval callback at remaining <= 0: cleanupTimer() before handleStop()
TickExpiryKeepsInterval ==
  [timerIntervalRef |-> timerIntervalRef,
   intervals |-> intervals,
   startTimeRef |-> startTimeRef,
   elapsedMs |-> SetState(elapsedMs, 0)]

TickExpiry == cleanupTimer

startTimerWithoutCleanup ==
  LET h == NewHandle(intervals)
  IN [timerIntervalRef |-> h,
      intervals |-> intervals \cup {h},
      startTimeRef |-> now,
      elapsedMs |-> SetState(elapsedMs, MAX_RECORDING_DURATION_MS)]

\* startTimer: cleanupTimer, then a new interval
startTimer ==
  LET c == cleanupTimer
      h == NewHandle(c.intervals)
  IN [timerIntervalRef |-> h,
      intervals |-> c.intervals \cup {h},
      startTimeRef |-> now,
      elapsedMs |-> SetState(elapsedMs, MAX_RECORDING_DURATION_MS)]

ApplyTimer(t) ==
  /\ timerIntervalRef' = t.timerIntervalRef
  /\ intervals' = t.intervals
  /\ startTimeRef' = t.startTimeRef
  /\ elapsedMs' = t.elapsedMs

RemainingSwapped(elapsed) == Max(0, elapsed - MAX_RECORDING_DURATION_MS)

Remaining(elapsed) == Max(0, MAX_RECORDING_DURATION_MS - elapsed)

\* -------------------------------------------------------------- smoothing
\* smoothedLevel is the exact rational <<numerator, denominator>>; the speeds
\* 0.3 and 0.15 are 6/20 and 3/20
SmoothStepSpeedsSwapped(cur, level) ==
  LET diff == level * cur[2] - cur[1]
      speed == IF diff > 0 THEN 3 ELSE 6
  IN IF diff = 0 THEN cur
     ELSE <<cur[1] * 20 + diff * speed, cur[2] * 20>>
SmoothStep(cur, level) ==
  LET diff == level * cur[2] - cur[1]          \* (audioLevel - current) * den
      speed == IF diff > 0 THEN 6 ELSE 3       \* diff > 0 ? 0.3 : 0.15
  IN IF diff = 0 THEN cur                      \* current + 0 * speed
     ELSE <<cur[1] * 20 + diff * speed, cur[2] * 20>>

\* ------------------------------------------------- Session State updates
Session == [recording |-> recording, transcribing |-> transcribing, error |-> error]

OnStarted == [recording |-> TRUE, transcribing |-> FALSE, error |-> Null]
OnTranscribing == [recording |-> FALSE, transcribing |-> TRUE, error |-> error]
OnStopped == [recording |-> TRUE, transcribing |-> FALSE, error |-> error]
OnCancelled == [recording |-> TRUE, transcribing |-> FALSE, error |-> error]
OnErrorDropsPayload(p) == [recording |-> FALSE, transcribing |-> FALSE, error |-> Null]

OnError(p) == [recording |-> FALSE, transcribing |-> FALSE, error |-> p]
OnRetryClearsRecording == [recording |-> FALSE, transcribing |-> TRUE, error |-> Null]
OnRetryKeepsError == [recording |-> recording, transcribing |-> TRUE, error |-> error]
OnRetry == [recording |-> recording, transcribing |-> TRUE, error |-> Null]
OnCommandFailedShowsError(c) ==
  [recording |-> FALSE, transcribing |-> FALSE,
   error |-> [set |-> TRUE, can_retry |-> FALSE]]

\* the catch blocks of handleCancel/handleStop/handleRetry/handleDismiss only log
OnCommandFailed(c) == Session

ApplySession(s) ==
  /\ recording' = SetState(recording, s.recording)
  /\ transcribing' = SetState(transcribing, s.transcribing)
  /\ error' = SetState(error, s.error)

\* ------------------------------------------------------ mutation observers
\* observer.mutate(): the observer drops the call it was watching, watches the
\* new one, and reports isPending until the call it watches settles
Mutate(c, origin) ==
  [isPending |-> [isPending EXCEPT ![c] = TRUE],
   inFlight |-> [inFlight EXCEPT ![c] = Append(@, origin)]]

\* the call the observer of c watches (the latest one) settles
Settle(c) ==
  [isPending |-> [isPending EXCEPT ![c] = FALSE],
   inFlight |-> [inFlight EXCEPT ![c] = SubSeq(@, 1, Len(@) - 1)]]

\* the calls of c the observer no longer watches: all but a pending latest one
Superseded(c) == 1..(Len(inFlight[c]) - (IF isPending[c] THEN 1 ELSE 0))

RemoveAt(seq, i) == SubSeq(seq, 1, i - 1) \o SubSeq(seq, i + 1, Len(seq))


\* ------------------------------------------------------------------ history
\* lastEvent    the last lifecycle event a handler processed
\* restarted    that event was recording-started and found an interval live
\* autoStops    stop() calls the countdown issued since that event
\* stopElapsed  the elapsed time the countdown computed when it issued stop()
\* disturbed    a user command or the unmount happened since that event
\* dismissStage dismiss(): "invoked", then "ok" once the backend answered with
\*              success, then "armed" once recording-stopped/-cancelled followed
\* lastInvoked  the command invoked last and the view it was invoked in, while
\*              it is unanswered and no lifecycle event has been processed
\* failed       the command whose failure the previous step handled
NoInvoke == [cmd |-> "none", view |-> "none"]
NoFail == [cmd |-> "none", atInvoke |-> "none", before |-> "none", after |-> "none"]

HistEvent(e) ==
  /\ lastEvent' = e
  /\ restarted' = (e = "recording-started" /\ timerIntervalRef # None)
  /\ autoStops' = 0
  /\ stopElapsed' = Undefined
  /\ disturbed' = FALSE
  /\ lastInvoked' = NoInvoke
  /\ failed' = NoFail
  /\ dismissStage' =
       IF e \in {"recording-stopped", "recording-cancelled"}
       THEN (IF dismissStage \in {"ok", "armed"} THEN "armed" ELSE dismissStage)
       ELSE "none"

HistInvoke(c) ==
  /\ disturbed' = TRUE
  /\ lastInvoked' = [cmd |-> c, view |-> View]
  /\ failed' = NoFail
  /\ dismissStage' = IF c = "dismiss" THEN "invoked"
                     ELSE IF c = "retry" THEN "none" ELSE dismissStage
  /\ UNCHANGED <<lastEvent, restarted, autoStops, stopElapsed>>

HistSame ==
  /\ failed' = NoFail
  /\ UNCHANGED <<lastEvent, restarted, autoStops, stopElapsed, disturbed, dismissStage, lastInvoked>>

\* ------------------------------------------------------------------- Init
\* the state after the first render and the first run of the three effects:
\* one animation frame requested, the audio channel registration sent, the
\* first listen() of setupListeners awaited
PopupInit ==
  /\ recording = TRUE
  /\ transcribing = FALSE
  /\ error = Null
  /\ audioLevel = 0
  /\ smoothedLevel = <<0, 1>>
  /\ elapsedMs = 0
  /\ animationFrameRef = 1
  /\ startTimeRef = Undefined
  /\ timerIntervalRef = None
  /\ intervals = {}
  /\ frames = {1}
  /\ now = 0
  /\ mounted = TRUE
  /\ setupPc = 0
  /\ cleanup = FALSE
  /\ subs = {}
  /\ channel = "pending"
  /\ isPending = [c \in Commands |-> FALSE]
  /\ inFlight = [c \in Commands |-> <<>>]
  /\ lastEvent = "none"
  /\ autoStops = 0
  /\ stopElapsed = Undefined
  /\ disturbed = FALSE
  /\ dismissStage = "none"
  /\ lastInvoked = NoInvoke
  /\ restarted = FALSE
  /\ failed = NoFail

\* the settings view before anything is loaded, with nothing stored
NoToggle == [provider |-> NoProvider, before |-> NoProvider, after |-> NoProvider]
NoSettle == [result |-> "none", activeProvider |-> NoProvider,
             previousProvider |-> NoProvider, shownBefore |-> NoProvider]

ApiKeysIdle ==
  /\ activeProvider = NoProvider
  /\ isInitialized = FALSE
  /\ config = "loading"
  /\ existingConfig = [p \in Providers |-> "loading"]
  /\ saves = <<>>
  /\ savePending = FALSE
  /\ deletePending = [p \in Providers |-> FALSE]
  /\ toggled = NoToggle
  /\ settled = NoSettle

\* the provider forms untouched
NoTest == [provider |-> NoProvider, value |-> "", result |-> "none"]

FormIdle ==
  /\ fieldValue = [p \in Providers |-> ""]
  /\ isSubmitting = [p \in Providers |-> FALSE]
  /\ submitPc = [p \in Providers |-> "idle"]
  /\ testParams = [p \in Providers |-> ""]
  /\ saveParams = [p \in Providers |-> ""]
  /\ saveSuccess = [p \in Providers |-> FALSE]
  /\ lastTest = NoTest

\* the onboarding window on its index route, before the config query answers
NoNav == [step |-> NullStep, from |-> NullStep, dir |-> "none"]
NoNavSettle == [result |-> "none", step |-> NullStep, from |-> NullStep, dir |-> "none"]

OnboardingIdle ==
  /\ route = IndexRoute
  /\ onboardingConfig = "loading"
  /\ navCall = NoNav
  /\ nextDisabled = FALSE
  /\ navSettled = NoNavSettle

OtherViewsIdle ==
  /\ ApiKeysIdle
  /\ storedProvider = NoProvider
  /\ storedConfig = [p \in Providers |-> FALSE]
  /\ FormIdle
  /\ storedKey = [p \in Providers |-> NoKey]
  /\ OnboardingIdle
  /\ storedStep = "welcome"

Init == PopupInit /\ OtherViewsIdle

\* -------------------------------------------------- listener registration
\* one `await listen(...)` of setupListeners resolves: the subscription exists
ListenResolves ==
  /\ setupPc < Len(LifecycleEvents)
  /\ subs' = subs \cup {LifecycleEvents[setupPc + 1]}
  /\ setupPc' = setupPc + 1
  /\ HistSame
  /\ UNCHANGED <<popupVars, refVars, intervals, frames, now, mounted, cleanup, channel, mutationVars>>
  /\ UNCHANGED otherViews

\* setupListeners().then(cleanupFn => { cleanup = cleanupFn })
SetupResolves ==
  /\ setupPc = Len(LifecycleEvents)
  /\ ~cleanup
  /\ cleanup' = TRUE
  /\ HistSame
  /\ UNCHANGED <<popupVars, refVars, intervals, frames, now, mounted, setupPc, subs, channel, mutationVars>>
  /\ UNCHANGED otherViews

\* commands.registerAudioLevelChannel(audioLevelChannel) answers
ChannelRegistered ==
  /\ channel = "pending"
  /\ channel' = "registered"
  /\ HistSame
  /\ UNCHANGED <<popupVars, refVars, intervals, frames, now, mounted, setupPc, cleanup, subs, mutationVars>>
  /\ UNCHANGED otherViews

ChannelFails ==
  /\ channel = "pending"
  /\ channel' = "failed"
  /\ HistSame
  /\ UNCHANGED <<popupVars, refVars, intervals, frames, now, mounted, setupPc, cleanup, subs, mutationVars>>
  /\ UNCHANGED otherViews

\* ------------------------------------------------------------ audio level
\* audioLevelChannel.onmessage; a changed audioLevel re-runs the smoothing
\* effect: its cleanup cancels the requested frame, its body requests a new one
OnMessageSetsSmoothed(level) == [audioLevel |-> level, smoothedLevel |-> <<level, 1>>]
OnMessage(level) == [audioLevel |-> level, smoothedLevel |-> smoothedLevel]

AudioLevel(level) ==
  /\ channel = "registered"
  /\ audioLevel' = SetState(audioLevel, OnMessage(level).audioLevel)
  /\ smoothedLevel' = SetState(smoothedLevel, OnMessage(level).smoothedLevel)
  /\ IF mounted /\ level # audioLevel
     THEN LET live == IF animationFrameRef # None THEN frames \ {animationFrameRef}
                      ELSE frames
              h == NewHandle(live)
          IN /\ frames' = live \cup {h}
             /\ animationFrameRef' = h
     ELSE UNCHANGED <<frames, animationFrameRef>>
  /\ HistSame
  /\ UNCHANGED <<recording, transcribing, error, timerVars, now,
                 mounted, setupVars, mutationVars>>
  /\ UNCHANGED otherViews

\* the requestAnimationFrame callback `animate`, while fewer than cap frames
\* have moved the smoothed level
AnimateUpTo(h, cap) ==
  /\ h \in frames
  /\ smoothedLevel[2] < Pow20(cap)
  /\ smoothedLevel' = SetState(smoothedLevel, SmoothStep(smoothedLevel, audioLevel))
  /\ LET live == frames \ {h}
         g == NewHandle(live)
     IN /\ frames' = live \cup {g}
        /\ animationFrameRef' = g
  /\ HistSame
  /\ UNCHANGED <<recording, transcribing, error, audioLevel, timerVars, now,
                 mounted, setupVars, mutationVars>>
  /\ UNCHANGED otherViews

Animate(h) == AnimateUpTo(h, MaxFrames)

\* ------------------------------------------------------- lifecycle events
RecordingStarted ==
  /\ "recording-started" \in subs
  /\ intervals # Handles
  /\ ApplySession(OnStarted)
  /\ ApplyTimer(startTimer)
  /\ HistEvent("recording-started")
  /\ UNCHANGED <<audioLevel, frameVars, now, mounted, setupVars, mutationVars>>
  /\ UNCHANGED otherViews

RecordingTranscribing ==
  /\ "recording-transcribing" \in subs
  /\ ApplySession(OnTranscribing)
  /\ ApplyTimer(cleanupTimer)
  /\ HistEvent("recording-transcribing")
  /\ UNCHANGED <<audioLevel, frameVars, now, mounted, setupVars, mutationVars>>
  /\ UNCHANGED otherViews

RecordingStopped ==
  /\ "recording-stopped" \in subs
  /\ ApplySession(OnStopped)
  /\ ApplyTimer(cleanupTimer)
  /\ HistEvent("recording-stopped")
  /\ UNCHANGED <<audioLevel, frameVars, now, mounted, setupVars, mutationVars>>
  /\ UNCHANGED otherViews

RecordingCancelled ==
  /\ "recording-cancelled" \in subs
  /\ ApplySession(OnCancelled)
  /\ ApplyTimer(cleanupTimer)
  /\ HistEvent("recording-cancelled")
  /\ UNCHANGED <<audioLevel, frameVars, now, mounted, setupVars, mutationVars>>
  /\ UNCHANGED otherViews

\* the handler awaits resizePopupForError and only logs its failure: resizeOk
\* is the backend's answer
RecordingError(p, resizeOk) ==
  /\ "recording-error" \in subs
  /\ ApplySession(OnError(p))
  /\ HistEvent("recording-error")
  /\ UNCHANGED <<audioLevel, frameVars, timerVars, now, mounted, setupVars, mutationVars>>
  /\ UNCHANGED otherViews

\* ------------------------------------------------------------ countdown
\* the clock moves
AdvanceClock ==
  /\ now + TimeStep <= MaxClockSteps * TimeStep
  /\ now' = now + TimeStep
  /\ HistSame
  /\ UNCHANGED <<popupVars, refVars, intervals, frames, mounted, setupVars, mutationVars>>
  /\ UNCHANGED otherViews

\* the setInterval callback of startTimer, run for live interval h
Tick(h) ==
  /\ h \in intervals
  /\ IF startTimeRef = Undefined
     THEN /\ HistSame
          /\ UNCHANGED <<timerVars, mutationVars>>
     ELSE LET elapsed == now - startTimeRef
              remaining == Remaining(elapsed)
          IN IF remaining <= 0
             THEN \* setElapsedMs(remaining); cleanupTimer(); handleStop()
                  /\ ApplyTimer(TickExpiry)
                  /\ isPending' = SetState(isPending, Mutate("stop", "timer").isPending)
                  /\ inFlight' = SetState(inFlight, Mutate("stop", "timer").inFlight)
                  /\ autoStops' = autoStops + 1
                  /\ stopElapsed' = elapsed
                  /\ lastInvoked' = SetState(lastInvoked, [cmd |-> "stop", view |-> View])
                  /\ failed' = NoFail
                  /\ UNCHANGED <<lastEvent, restarted, disturbed, dismissStage>>
             ELSE /\ elapsedMs' = SetState(elapsedMs, remaining)
                  /\ HistSame
                  /\ UNCHANGED <<startTimeRef, timerIntervalRef, intervals, mutationVars>>
  /\ UNCHANGED <<recording, transcribing, error, audioLevel, frameVars, now,
                 mounted, setupVars>>
  /\ UNCHANGED otherViews

\* ---------------------------------------------------------- user commands
\* a control can be clicked when it is rendered and not disabled
ClickCancel ==
  /\ "Recording" \in Rendered
  /\ ~isPending["cancel"]
  /\ isPending' = Mutate("cancel", "control").isPending
  /\ inFlight' = Mutate("cancel", "control").inFlight
  /\ HistInvoke("cancel")
  /\ UNCHANGED <<popupVars, refVars, intervals, frames, now, mounted, setupVars>>
  /\ UNCHANGED otherViews

ClickStop ==
  /\ "Recording" \in Rendered
  /\ ~isPending["stop"]
  /\ isPending' = Mutate("stop", "control").isPending
  /\ inFlight' = Mutate("stop", "control").inFlight
  /\ HistInvoke("stop")
  /\ UNCHANGED <<popupVars, refVars, intervals, frames, now, mounted, setupVars>>
  /\ UNCHANGED otherViews

ClickRetry ==
  /\ "ErrorState" \in Rendered
  /\ RetryOffered
  /\ ~isPending["retry"]
  /\ ApplySession(OnRetry)
  /\ isPending' = Mutate("retry", "control").isPending
  /\ inFlight' = Mutate("retry", "control").inFlight
  /\ HistInvoke("retry")
  /\ UNCHANGED <<audioLevel, smoothedLevel, elapsedMs, refVars, intervals, frames,
                 now, mounted, setupVars>>
  /\ UNCHANGED otherViews

ClickDismiss ==
  /\ "ErrorState" \in Rendered
  /\ ~isPending["dismiss"]
  /\ isPending' = Mutate("dismiss", "control").isPending
  /\ inFlight' = Mutate("dismiss", "control").inFlight
  /\ HistInvoke("dismiss")
  /\ UNCHANGED <<popupVars, refVars, intervals, frames, now, mounted, setupVars>>
  /\ UNCHANGED otherViews

\* the backend answers the latest call of command c with success
CommandSucceeds(c) ==
  /\ isPending[c]
  /\ isPending' = Settle(c).isPending
  /\ inFlight' = Settle(c).inFlight
  /\ failed' = NoFail
  /\ lastInvoked' = IF lastInvoked.cmd = c THEN NoInvoke ELSE lastInvoked
  /\ dismissStage' = IF c = "dismiss" /\ dismissStage = "invoked" THEN "ok"
                     ELSE dismissStage
  /\ UNCHANGED <<lastEvent, restarted, autoStops, stopElapsed, disturbed>>
  /\ UNCHANGED <<popupVars, refVars, intervals, frames, now, mounted, setupVars>>
  /\ UNCHANGED otherViews

\* ... or with an error-tagged result or a rejection: mutationFn throws, the
\* handler's catch block logs
CommandFails(c) ==
  /\ isPending[c]
  /\ isPending' = Settle(c).isPending
  /\ inFlight' = Settle(c).inFlight
  /\ ApplySession(OnCommandFailed(c))
  /\ failed' = [cmd |-> c,
                atInvoke |-> IF lastInvoked.cmd = c THEN lastInvoked.view ELSE "none",
                before |-> View,
                after |-> View']
  /\ lastInvoked' = IF lastInvoked.cmd = c THEN NoInvoke ELSE lastInvoked
  /\ dismissStage' = IF c = "dismiss" THEN "none" ELSE dismissStage
  /\ UNCHANGED <<lastEvent, restarted, autoStops, stopElapsed, disturbed>>
  /\ UNCHANGED <<audioLevel, smoothedLevel, elapsedMs, refVars, intervals, frames,
                 now, mounted, setupVars>>
  /\ UNCHANGED otherViews

\* the backend answers a call its observer no longer watches (a later call
\* of the same command replaced it): the handler's await returns or its catch
\* logs; no state cell is written
SupersededSettles(c) ==
  /\ \E i \in Superseded(c) : inFlight' = [inFlight EXCEPT ![c] = RemoveAt(@, i)]
  /\ HistSame
  /\ UNCHANGED <<popupVars, refVars, intervals, frames, now, mounted, setupVars,
                 isPending>>
  /\ UNCHANGED otherViews

\* ------------------------------------------------------------------ unmount
\* the effect cleanups run: cancelAnimationFrame of the smoothing effect, and
\* `if (cleanup) cleanup()` of the listener effect (five unlisten calls and
\* cleanupTimer); the audio-channel effect returns no cleanup.  The useState
\* cells and the mutation observers go away with the component (they read as
\* their initial values from here on); the refs stay reachable from the
\* closures of whatever was not released.
Unmount ==
  /\ mounted
  /\ mounted' = FALSE
  /\ frames' = IF animationFrameRef # None THEN frames \ {animationFrameRef} ELSE frames
  /\ IF cleanup
     THEN /\ subs' = {}
          /\ timerIntervalRef' = cleanupTimer.timerIntervalRef
          /\ intervals' = cleanupTimer.intervals
          /\ startTimeRef' = cleanupTimer.startTimeRef
     ELSE UNCHANGED <<subs, timerIntervalRef, intervals, startTimeRef>>
  /\ recording' = TRUE
  /\ transcribing' = FALSE
  /\ error' = Null
  /\ audioLevel' = 0
  /\ smoothedLevel' = <<0, 1>>
  /\ elapsedMs' = 0
  /\ isPending' = [c \in Commands |-> FALSE]
  /\ inFlight' = [c \in Commands |-> <<>>]
  /\ disturbed' = TRUE
  /\ failed' = NoFail
  /\ lastInvoked' = NoInvoke
  /\ dismissStage' = "none"
  /\ UNCHANGED <<lastEvent, restarted, autoStops, stopElapsed>>
  /\ UNCHANGED <<animationFrameRef, now, setupPc, cleanup, channel>>
  /\ UNCHANGED otherViews

\* --------------------------------------------------------------------- Next
Next ==
  \/ ListenResolves
  \/ SetupResolves
  \/ ChannelRegistered
  \/ ChannelFails
  \/ \E level \in Levels : AudioLevel(level)
  \/ \E h \in Handles : Animate(h)
  \/ RecordingStarted
  \/ RecordingTranscribing
  \/ RecordingStopped
  \/ RecordingCancelled
  \/ \E p \in Payloads, resizeOk \in BOOLEAN : RecordingError(p, resizeOk)
  \/ AdvanceClock
  \/ \E h \in Handles : Tick(h)
  \/ ClickCancel
  \/ ClickStop
  \/ ClickRetry
  \/ ClickDismiss
  \/ \E c \in Commands : CommandSucceeds(c)
  \/ \E c \in Commands : CommandFails(c)
  \/ \E c \in Commands : SupersededSettles(c)
  \/ Unmount

Spec == Init /\ [][Next]_vars

\* the popup under backend events only: no user command, no unmount
NextEventsOnly ==
  \/ ListenResolves
  \/ SetupResolves
  \/ ChannelRegistered
  \/ ChannelFails
  \/ \E level \in Levels : AudioLevel(level)
  \/ \E h \in Handles : Animate(h)
  \/ RecordingStarted
  \/ RecordingTranscribing
  \/ RecordingStopped
  \/ RecordingCancelled
  \/ \E p \in Payloads, resizeOk \in BOOLEAN : RecordingError(p, resizeOk)
  \/ AdvanceClock
  \/ \E h \in Handles : Tick(h)
  \/ \E c \in Commands : CommandSucceeds(c)
  \/ \E c \in Commands : CommandFails(c)

EventsOnlySpec == Init /\ [][NextEventsOnly]_vars

\* ================================================================== claims
Mandated(e) ==
  IF e = "recording-transcribing" THEN "Transcribing"
  ELSE IF e = "recording-error" THEN "ErrorState"
  ELSE "Recording"

\* C1: after any sequence of lifecycle events and audio-level pushes, with no
\* user command, the popup shows the view the last lifecycle event mandates:
\* Recording after recording-started, -stopped or -cancelled, Transcribing
\* after recording-transcribing, ErrorState after recording-error.
C1_LastEventDecidesView ==
  lastEvent # "none" => Rendered = {Mandated(lastEvent)}

\* C2: once the popup processed recording-transcribing, -stopped, -cancelled
\* or -error, no countdown interval is live and the remaining time is 0; no
\* interval is live while the popup shows Transcribing or ErrorState.
C2_NoCountdownOutsideRecording ==
  /\ (lastEvent \in {"recording-transcribing", "recording-stopped",
                     "recording-cancelled", "recording-error"})
       => (intervals = {} /\ (mounted => elapsedMs = 0))
  /\ (Rendered \cap {"Transcribing", "ErrorState"} # {}) => (intervals = {})

\* C3: dismiss() invoked in ErrorState, answered with success and followed by
\* the backend's idle-arming event leaves the popup in the Recording view with
\* the error payload null.
C3_DismissShowsRecording ==
  (mounted /\ dismissStage = "armed") => (Rendered = {"Recording"} /\ error = Null)

C5_UnmountReleasesSubscriptions ==
  (~mounted /\ setupPc = Len(LifecycleEvents) /\ cleanup)
    => (subs = {} /\ channel # "registered")

\* C6: after an unmount that followed recording-started (no lifecycle event
\* since), no countdown interval and no animation frame is live and the
\* countdown has issued no stop().
C6_UnmountCancelsTimers ==
  (~mounted /\ lastEvent = "recording-started" /\ disturbed)
    => (intervals = {} /\ frames = {} /\ autoStops = 0)

\* C7: between a lifecycle event and the next one the countdown callback
\* issues stop() at most once.
C7_AtMostOneAutoStop == autoStops <= 1

C7_Witness ==
  /\ lastEvent = "recording-started"
  /\ autoStops = 1
  /\ stopElapsed >= MAX_RECORDING_DURATION_MS

\* C8: at most one countdown interval is live, and it is the one
\* timerIntervalRef holds; after a recording-started that found a countdown
\* running exactly one interval is live until it expires, and one stop() is
\* issued at expiry.
C8_AtMostOneInterval ==
  /\ Cardinality(intervals) <= 1
  /\ intervals = IF timerIntervalRef = None THEN {} ELSE {timerIntervalRef}
  /\ (restarted /\ ~disturbed) =>
       \/ (autoStops = 0 /\ Cardinality(intervals) = 1)
       \/ (autoStops = 1 /\ intervals = {})

C8_Witness == restarted /\ ~disturbed /\ autoStops = 1 /\ intervals = {}

\* C9: in a session opened by recording-started and not disturbed by a
\* lifecycle event, user command or unmount, the countdown issues stop() only
\* once 600000 ms have elapsed, exactly once, and the interval is cancelled
\* with it; until then the interval stays live and no tick has seen the
\* remaining time at 0.
QuietSession == lastEvent = "recording-started" /\ ~disturbed

C9_AutoStopAtExpiry ==
  QuietSession =>
    \/ /\ autoStops = 0
       /\ intervals = {timerIntervalRef}
       /\ startTimeRef # Undefined
       /\ (mounted => elapsedMs > 0)
    \/ /\ autoStops = 1
       /\ stopElapsed >= MAX_RECORDING_DURATION_MS
       /\ intervals = {}
       /\ timerIntervalRef = None

C9_Witness ==
  /\ QuietSession
  /\ mounted
  /\ autoStops = 1
  /\ stopElapsed = MAX_RECORDING_DURATION_MS
  /\ intervals = {}

\* C10: while mounted the popup renders exactly one of the three views.
C10_ExactlyOneView == mounted => Cardinality(Rendered) = 1

C10_Witness ==
  /\ mounted
  /\ lastEvent = "recording-error"
  /\ Rendered = {"Transcribing"}
  /\ failed.cmd = "retry"


\* C11: whenever the error payload is set, neither the recording nor the
\* transcribing flag is set, and the recording and transcribing flags are
\* never both set.
C11_SessionFlagsExclusive ==
  mounted =>
    /\ (error # Null => ~recording /\ ~transcribing)
    /\ ~(recording /\ transcribing)


\* C12: retry() in ErrorState with can_retry = true clears the error payload
\* and shows Transcribing at once, while the backend call is still unresolved,
\* and sends exactly one retry-transcription command.
C12_RetryIsOptimistic ==
  lastInvoked.cmd = "retry" =>
    /\ lastInvoked.view = "ErrorState"
    /\ error = Null
    /\ Rendered = {"Transcribing"}
    /\ isPending["retry"]
    /\ inFlight["retry"] = <<"control">>

C12_Witness ==
  /\ lastInvoked.cmd = "retry"
  /\ Rendered = {"Transcribing"}
  /\ isPending["retry"]


\* C13: in ErrorState with can_retry = false no retry command is sent, and no
\* user action moves the popup to Transcribing.
C13_NoRetryWhenNotRetryable ==
  [][(mounted /\ ErrorShown /\ ~error.can_retry) =>
       /\ Len(inFlight'["retry"]) <= Len(inFlight["retry"])
       /\ lastInvoked'.cmd # "retry"
       /\ (lastInvoked' # lastInvoked /\ lastInvoked'.cmd \in Commands
             => "Transcribing" \notin Rendered')]_vars

C13_Witness ==
  /\ mounted
  /\ ErrorShown
  /\ ~error.can_retry
  /\ lastInvoked = [cmd |-> "dismiss", view |-> "ErrorState"]


\* what the popup does on its own is eventually done: pending listener and
\* channel registrations resolve, requested animation frames and live
\* intervals fire, the clock advances, the backend answers every call.  The
\* backend owes no lifecycle event and the user owes no click.
Fairness ==
  /\ WF_vars(ListenResolves)
  /\ WF_vars(SetupResolves)
  /\ WF_vars(ChannelRegistered \/ ChannelFails)
  /\ WF_vars(\E h \in Handles : Animate(h))
  /\ WF_vars(AdvanceClock)
  /\ WF_vars(\E h \in Handles : Tick(h))
  /\ WF_vars(\E c \in Commands : CommandSucceeds(c) \/ CommandFails(c))
  /\ WF_vars(\E c \in Commands : SupersededSettles(c))

FairSpec == Spec /\ Fairness

\* C14: after retry() is rejected the popup does not hang: it eventually
\* leaves Transcribing even if the backend emits no lifecycle event afterwards
\* (disturbed holds from the click until the next lifecycle event).
C14_RejectedRetryLeavesTranscribing ==
  (failed.cmd = "retry" /\ Rendered = {"Transcribing"})
    ~> (Rendered # {"Transcribing"} \/ (mounted /\ ~disturbed))


\* C15: the popup enters ErrorState only by processing a recording-error
\* event: the error payload is set by no failure of cancel, stop, retry,
\* dismiss, of the resize call or of the audio-channel registration.
C15_ErrorOnlyFromErrorEvent ==
  [][(error' # Null /\ error' # error) =>
       /\ "recording-error" \in subs
       /\ lastEvent' = "recording-error"
       /\ failed' = NoFail
       /\ channel' = channel]_vars

C15_Witness ==
  /\ mounted
  /\ channel = "failed"
  /\ failed.cmd \in Commands
  /\ error = Null


\* C16: while a call of cancel, stop, retry or dismiss made from its control
\* is unresolved, that control is disabled; once the call has succeeded or
\* failed the control is enabled again.
C16_ControlDisabledWhilePending ==
  mounted =>
    \A c \in Commands :
      /\ (\E i \in 1..Len(inFlight[c]) : inFlight[c][i] = "control") => isPending[c]
      /\ inFlight[c] = <<>> => ~isPending[c]


\* C17: an audio-level push changes only the raw audio level: the recording,
\* transcribing and error cells, the countdown (interval, start time,
\* remaining time) and the smoothed level stay as they are; the smoothed level
\* is written only by the animation-frame loop, from the raw level it reads.
C17_AudioPushWritesOnlyRawLevel ==
  [][/\ (mounted' /\ audioLevel' # audioLevel) =>
          UNCHANGED <<recording, transcribing, error, timerIntervalRef, intervals,
                      startTimeRef, elapsedMs, smoothedLevel>>
     /\ (mounted' /\ smoothedLevel' # smoothedLevel) =>
          /\ frames # {}
          /\ audioLevel' = audioLevel
          /\ smoothedLevel' = SmoothStep(smoothedLevel, audioLevel)]_vars

C17_Witness ==
  /\ mounted
  /\ audioLevel = 1
  /\ smoothedLevel = <<0, 1>>
  /\ intervals # {}
  /\ elapsedMs = 300000
  /\ View = "Recording"


\* -------------------------------------------- the countdown, millisecond by
\* millisecond.  The popup has registered its recording-started listener and
\* processed one recording-started event at time 0.
InitFormat ==
  /\ recording = TRUE
  /\ transcribing = FALSE
  /\ error = Null
  /\ audioLevel = 0
  /\ smoothedLevel = <<0, 1>>
  /\ elapsedMs = MAX_RECORDING_DURATION_MS
  /\ animationFrameRef = 1
  /\ startTimeRef = 0
  /\ timerIntervalRef = 1
  /\ intervals = {1}
  /\ frames = {1}
  /\ now = 0
  /\ mounted = TRUE
  /\ setupPc = 1
  /\ cleanup = FALSE
  /\ subs = {"recording-started"}
  /\ channel = "pending"
  /\ isPending = [c \in Commands |-> FALSE]
  /\ inFlight = [c \in Commands |-> <<>>]
  /\ lastEvent = "recording-started"
  /\ autoStops = 0
  /\ stopElapsed = Undefined
  /\ disturbed = FALSE
  /\ dismissStage = "none"
  /\ lastInvoked = NoInvoke
  /\ restarted = FALSE
  /\ failed = NoFail
  /\ OtherViewsIdle

\* the wall clock moves by one millisecond or by one interval period, once
\* the interval callback has shown the time it had reached
ClockSteps == {1, 1000}

PassTime(d) ==
  /\ startTimeRef # Undefined
  /\ elapsedMs = Remaining(now - startTimeRef)
  /\ now + d - startTimeRef <= MAX_RECORDING_DURATION_MS
  /\ now' = now + d
  /\ HistSame
  /\ UNCHANGED <<popupVars, refVars, intervals, frames, mounted, setupVars, mutationVars>>
  /\ UNCHANGED otherViews

NextFormat ==
  \/ \E d \in ClockSteps : PassTime(d)
  \/ \E h \in Handles : Tick(h)

FormatSpec == InitFormat /\ [][NextFormat]_vars

\* C18: for every integer ms in [0, 600000], formatTime(ms) is
\* floor(ms / 60000) in two zero-padded digits, a colon, and
\* floor(ms / 1000) mod 60 in two zero-padded digits; formatTime(0) = "00:00",
\* formatTime(65000) = "01:05", formatTime(600000) = "10:00".
C18_FormatTime ==
  LET ms == elapsedMs
      mm == ms \div 60000
      ss == (ms \div 1000) % 60
  IN /\ ms \in 0..MAX_RECORDING_DURATION_MS
     /\ TimerText = <<DigitChars[(mm \div 10) + 1], DigitChars[(mm % 10) + 1], ":",
                      DigitChars[(ss \div 10) + 1], DigitChars[(ss % 10) + 1]>>
     /\ ms = 0 => TimerText = <<"0", "0", ":", "0", "0">>
     /\ ms = 65000 => TimerText = <<"0", "1", ":", "0", "5">>
     /\ ms = 600000 => TimerText = <<"1", "0", ":", "0", "0">>

C18_Witness ==
  /\ elapsedMs = 65000
  /\ TimerText = <<"0", "1", ":", "0", "5">>


\* ------------------------------------------------ the smoothing on its own:
\* the audio channel registers, the backend pushes levels, frames run
NextSmooth ==
  \/ ChannelRegistered
  \/ \E level \in Levels : AudioLevel(level)
  \/ \E h \in Handles : AnimateUpTo(h, MaxSmoothFrames)

SmoothSpec == Init /\ [][NextSmooth]_vars

CommandInvoked(c) == lastInvoked' # lastInvoked /\ lastInvoked'.cmd = c

\* C20: the recording, transcribing and error cells are written only by the
\* lifecycle-event handlers and the timer-expiry callback: none of cancel(),
\* stop(), retry(), dismiss() writes them.
C20_CommandsWriteNoSession ==
  [][\A c \in Commands : CommandInvoked(c) => Session' = Session]_vars

\* C20, amended: cancel(), stop() and dismiss(), and the timer-expiry
\* callback, write none of the three cells; retry() sets transcribing and
\* clears the error payload, and leaves the recording flag as it is.
C20_OnlyRetryWritesSession ==
  [][/\ \A c \in Commands \ {"retry"} : CommandInvoked(c) => Session' = Session
     /\ CommandInvoked("retry") =>
          Session' = [Session EXCEPT !.transcribing = TRUE, !.error = Null]
     /\ autoStops' # autoStops /\ autoStops' > 0 => Session' = Session]_vars

C20_Witness ==
  /\ lastInvoked = [cmd |-> "cancel", view |-> "Recording"]
  /\ autoStops = 1
  /\ isPending["stop"]


\* C21: every command is sent only in the state where it is valid: stop (from
\* the Stop control or from countdown expiry) and cancel only while the popup
\* shows Recording, dismiss and retry only while it shows ErrorState.
C21_CommandsSentInValidState ==
  /\ lastInvoked.cmd \in {"stop", "cancel"} => lastInvoked.view = "Recording"
  /\ lastInvoked.cmd \in {"dismiss", "retry"} => lastInvoked.view = "ErrorState"


\* a step that sends a stop command, from the Stop control or from the
\* countdown, and a state with a stop command sent since the last lifecycle
\* event (by the countdown, or by the control and not answered yet)
StopSent ==
  \/ autoStops' > autoStops
  \/ lastInvoked' # lastInvoked /\ lastInvoked'.cmd = "stop"

StopAlreadySent == autoStops > 0 \/ lastInvoked.cmd = "stop"

\* C22: between a recording-started event and the next lifecycle event at
\* most one stop command is sent, counting the Stop control and countdown
\* expiry: a user stop not yet answered when the countdown reaches zero is not
\* followed by a second, automatic stop.
C22_AtMostOneStopPerSession ==
  [][(lastEvent = "recording-started" /\ StopAlreadySent) => ~StopSent]_vars

\* C23: a countdown exists only for a session announced by a processed
\* recording-started event: in the Recording state after mount and in the one
\* after recording-stopped or recording-cancelled no interval is live, the
\* remaining time is 0 and no auto-stop fires, however long the popup stays.
C23_CountdownOnlyForStartedSession ==
  (mounted /\ lastEvent \in {"none", "recording-stopped", "recording-cancelled"}) =>
    /\ intervals = {}
    /\ timerIntervalRef = None
    /\ startTimeRef = Undefined
    /\ elapsedMs = 0
    /\ autoStops = 0
    /\ \A h \in Handles : ~ENABLED Tick(h)

C23_Witness ==
  /\ mounted
  /\ lastEvent = "recording-cancelled"
  /\ View = "Recording"
  /\ now >= MAX_RECORDING_DURATION_MS
  /\ elapsedMs = 0


\* ================================================ the API-keys settings view
\* isActive of a provider section
IsActive(p) == activeProvider = p

\* canEnable of a provider section: !!existingConfig
canEnable(p) == existingConfig[p] = "exists"

\* handleToggleProvider: newProvider
newProviderAlwaysOn(provider) == provider
newProvider(provider) == IF activeProvider = provider THEN NoProvider ELSE provider

\* the onError callback of a toggle's save call; mutate-level callbacks run
\* only for the call the observer watches
OnSaveErrorKeepsShown(call, watched) == activeProvider
OnSaveError(call, watched) ==
  IF watched THEN call.previousProvider ELSE activeProvider

Watched(i) == i = Len(saves) /\ savePending

\* the app-config query resolves; the sync effect runs once
AppConfigLoaded ==
  /\ config = "loading"
  /\ config' = storedProvider
  /\ activeProvider' = IF isInitialized THEN activeProvider ELSE storedProvider
  /\ isInitialized' = TRUE
  /\ toggled' = NoToggle
  /\ settled' = NoSettle
  /\ UNCHANGED <<existingConfig, storedProvider, storedConfig, saves, savePending,
                 deletePending>>
  /\ UNCHANGED <<popupState, formVars, onboardingVars>>

\* the config query of provider p resolves, first or after an invalidation
ProviderConfigFetched(p) ==
  /\ existingConfig[p] # (IF storedConfig[p] THEN "exists" ELSE "none")
  /\ existingConfig' = [existingConfig EXCEPT ![p] = IF storedConfig[p] THEN "exists"
                                                     ELSE "none"]
  /\ toggled' = NoToggle
  /\ settled' = NoSettle
  /\ UNCHANGED <<activeProvider, isInitialized, config, storedProvider, storedConfig,
                 saves, savePending, deletePending>>
  /\ UNCHANGED <<popupState, formVars, onboardingVars>>

\* the Switch of provider p changes: handleToggleProvider(p)
ToggleProvider(p) ==
  /\ isInitialized
  /\ canEnable(p)
  /\ Len(saves) < MaxSaves
  /\ activeProvider' = newProvider(p)
  /\ saves' = Append(saves, [activeProvider |-> newProvider(p),
                             previousProvider |-> activeProvider])
  /\ savePending' = TRUE
  /\ toggled' = [provider |-> p, before |-> activeProvider, after |-> activeProvider']
  /\ settled' = NoSettle
  /\ UNCHANGED <<isInitialized, config, existingConfig, storedProvider, storedConfig,
                 deletePending>>
  /\ UNCHANGED <<popupState, formVars, onboardingVars>>

\* the backend answers the i-th unanswered save-app-config call with success:
\* it stores the provider; the hook invalidates the app-config query
SaveAppConfigSucceeds(i) ==
  /\ i \in 1..Len(saves)
  /\ storedProvider' = saves[i].activeProvider
  /\ config' = IF config = "loading" THEN config ELSE saves[i].activeProvider
  /\ saves' = RemoveAt(saves, i)
  /\ savePending' = (savePending /\ ~Watched(i))
  /\ toggled' = NoToggle
  /\ settled' = [result |-> "ok", activeProvider |-> saves[i].activeProvider,
                 previousProvider |-> saves[i].previousProvider,
                 shownBefore |-> activeProvider]
  /\ UNCHANGED <<activeProvider, isInitialized, existingConfig, storedConfig, deletePending>>
  /\ UNCHANGED <<popupState, formVars, onboardingVars>>

\* ... or with an error
SaveAppConfigFails(i) ==
  /\ i \in 1..Len(saves)
  /\ activeProvider' = OnSaveError(saves[i], Watched(i))
  /\ saves' = RemoveAt(saves, i)
  /\ savePending' = (savePending /\ ~Watched(i))
  /\ toggled' = NoToggle
  /\ settled' = [result |-> "failed", activeProvider |-> saves[i].activeProvider,
                 previousProvider |-> saves[i].previousProvider,
                 shownBefore |-> activeProvider]
  /\ UNCHANGED <<isInitialized, config, existingConfig, storedProvider, storedConfig,
                 deletePending>>
  /\ UNCHANGED <<popupState, formVars, onboardingVars>>

\* the Delete button of provider p: handleDelete
ClickDelete(p) ==
  /\ canEnable(p)
  /\ ~deletePending[p]
  /\ deletePending' = [deletePending EXCEPT ![p] = TRUE]
  /\ toggled' = NoToggle
  /\ settled' = NoSettle
  /\ UNCHANGED <<activeProvider, isInitialized, config, existingConfig, storedProvider,
                 storedConfig, saves, savePending>>
  /\ UNCHANGED <<popupState, formVars, onboardingVars>>

\* the backend deletes the config; the hook invalidates the config query and
\* handleDelete resets the form
DeleteSucceeds(p) ==
  /\ deletePending[p]
  /\ deletePending' = [deletePending EXCEPT ![p] = FALSE]
  /\ storedConfig' = [storedConfig EXCEPT ![p] = FALSE]
  /\ storedKey' = [storedKey EXCEPT ![p] = NoKey]
  /\ saveSuccess' = [saveSuccess EXCEPT ![p] = FALSE]
  /\ fieldValue' = [fieldValue EXCEPT ![p] = ""]
  /\ isSubmitting' = [isSubmitting EXCEPT ![p] = FALSE]
  /\ toggled' = NoToggle
  /\ settled' = NoSettle
  /\ UNCHANGED <<activeProvider, isInitialized, config, existingConfig, storedProvider,
                 saves, savePending>>
  /\ UNCHANGED <<submitPc, testParams, saveParams, lastTest>>
  /\ UNCHANGED <<popupState, onboardingVars>>

DeleteFails(p) ==
  /\ deletePending[p]
  /\ deletePending' = [deletePending EXCEPT ![p] = FALSE]
  /\ toggled' = NoToggle
  /\ settled' = NoSettle
  /\ UNCHANGED <<activeProvider, isInitialized, config, existingConfig, storedProvider,
                 storedConfig, saves, savePending>>
  /\ UNCHANGED <<popupState, formVars, onboardingVars>>

\* the view opens on a backend that stores any consistent configuration
InitApiKeys ==
  /\ PopupInit
  /\ ApiKeysIdle
  /\ storedConfig \in [Providers -> BOOLEAN]
  /\ storedProvider \in {NoProvider} \cup {p \in Providers : storedConfig[p]}
  /\ FormIdle
  /\ storedKey = [p \in Providers |-> IF storedConfig[p] THEN "sk-A" ELSE NoKey]
  /\ OnboardingIdle
  /\ storedStep = "welcome"

NextApiKeys ==
  \/ AppConfigLoaded
  \/ \E p \in Providers : ProviderConfigFetched(p)
  \/ \E p \in Providers : ToggleProvider(p)
  \/ \E i \in 1..MaxSaves : SaveAppConfigSucceeds(i)
  \/ \E i \in 1..MaxSaves : SaveAppConfigFails(i)
  \/ \E p \in Providers : ClickDelete(p)
  \/ \E p \in Providers : DeleteSucceeds(p)
  \/ \E p \in Providers : DeleteFails(p)

ApiKeysSpec == InitApiKeys /\ [][NextApiKeys]_vars

\* C24: a provider toggle updates the displayed active provider at once; if
\* the save call of that toggle fails the displayed provider returns to the
\* value shown before the toggle, and if it succeeds the shown value is kept.
C24_FailedToggleReverts ==
  /\ toggled.provider # NoProvider => activeProvider = toggled.after
  /\ settled.result = "failed" => activeProvider = settled.previousProvider
  /\ settled.result = "ok" => activeProvider = settled.shownBefore


\* C25: once every save-app-config call of a sequence of toggles has settled,
\* in whatever order and with whatever outcome, the displayed active provider
\* is the provider the backend stores.
C25_SettledDisplayMatchesBackend ==
  (isInitialized /\ saves = <<>>) => activeProvider = storedProvider


\* the providers displayed as active
ActiveShown == {p \in Providers : IsActive(p)}

\* C26: at most one provider is active at any time: toggling an inactive
\* provider makes it the only active one, toggling the active provider leaves
\* none active.
C26_AtMostOneActive ==
  /\ Cardinality(ActiveShown) <= 1
  /\ toggled.provider # NoProvider =>
       ActiveShown = IF toggled.before = toggled.provider THEN {}
                     ELSE {toggled.provider}

C26_Witness ==
  /\ toggled = [provider |-> "open_ai", before |-> "azure_open_ai", after |-> "open_ai"]
  /\ ActiveShown = {"open_ai"}

\* C27: a provider displayed as active has a saved configuration: it can be
\* switched on only when its configuration exists, and deleting the
\* configuration of the active provider does not leave it displayed as active.
\* (a configuration just deleted counts as saved until the view has refetched it)
C27_ActiveProviderIsConfigured ==
  isInitialized => \A p \in ActiveShown : storedConfig[p] \/ existingConfig[p] = "exists"


\* ======================================================= the provider forms
\* the field validators (onChange, run again on submit)
FieldError(value) == value = ""

\* the value handleSubmit passes to onSubmit once validation has passed: the
\* form's values at that moment
SubmittedValue(p) == fieldValue[p]

\* the user edits the field of provider p
HandleChange(p, value) ==
  /\ value # fieldValue[p]
  /\ fieldValue' = [fieldValue EXCEPT ![p] = value]
  /\ saveSuccess' = [saveSuccess EXCEPT ![p] = FALSE]
  /\ lastTest' = NoTest
  /\ UNCHANGED <<isSubmitting, submitPc, testParams, saveParams, storedKey>>
  /\ UNCHANGED <<popupState, apiKeysVars, onboardingVars>>

\* the Save button of provider p: handleSubmit starts, the onSubmitAsync
\* validator sends the test command with the values of this moment
HandleSubmit(p) ==
  /\ ~isSubmitting[p]
  /\ submitPc[p] = "idle"
  /\ ~FieldError(fieldValue[p])
  /\ isSubmitting' = [isSubmitting EXCEPT ![p] = TRUE]
  /\ submitPc' = [submitPc EXCEPT ![p] = "validating"]
  /\ testParams' = [testParams EXCEPT ![p] = fieldValue[p]]
  /\ lastTest' = NoTest
  /\ UNCHANGED <<fieldValue, saveParams, saveSuccess, storedKey>>
  /\ UNCHANGED <<popupState, apiKeysVars, onboardingVars>>

\* the test command answers: "valid", "invalid" or "failed".  On "valid",
\* with no field error, onSubmit sends the save command.
TestReturns(p, result) ==
  /\ submitPc[p] = "validating"
  /\ lastTest' = [provider |-> p, value |-> testParams[p], result |-> result]
  /\ IF result = "valid" /\ ~FieldError(fieldValue[p])
       THEN /\ submitPc' = [submitPc EXCEPT ![p] = "saving"]
            /\ saveParams' = [saveParams EXCEPT ![p] = SubmittedValue(p)]
            /\ saveSuccess' = [saveSuccess EXCEPT ![p] = FALSE]
            /\ UNCHANGED isSubmitting
       ELSE /\ submitPc' = [submitPc EXCEPT ![p] = "idle"]
            /\ isSubmitting' = [isSubmitting EXCEPT ![p] = FALSE]
            /\ UNCHANGED <<saveParams, saveSuccess>>
  /\ UNCHANGED <<fieldValue, testParams, storedKey>>
  /\ UNCHANGED <<popupState, apiKeysVars, onboardingVars>>

\* the save command answers with success: the backend stores the values, the
\* hook invalidates the config query, onSubmit resets the form
SaveSucceeds(p) ==
  /\ submitPc[p] = "saving"
  /\ storedKey' = [storedKey EXCEPT ![p] = saveParams[p]]
  /\ storedConfig' = [storedConfig EXCEPT ![p] = TRUE]
  /\ saveSuccess' = [saveSuccess EXCEPT ![p] = TRUE]
  /\ fieldValue' = [fieldValue EXCEPT ![p] = ""]
  /\ submitPc' = [submitPc EXCEPT ![p] = "idle"]
  /\ isSubmitting' = [isSubmitting EXCEPT ![p] = FALSE]
  /\ lastTest' = NoTest
  /\ toggled' = NoToggle
  /\ settled' = NoSettle
  /\ UNCHANGED <<testParams, saveParams>>
  /\ UNCHANGED <<activeProvider, isInitialized, config, existingConfig, storedProvider,
                 saves, savePending, deletePending>>
  /\ UNCHANGED <<popupState, onboardingVars>>

\* ... or with an error, which onSubmit logs
SaveFails(p) ==
  /\ submitPc[p] = "saving"
  /\ submitPc' = [submitPc EXCEPT ![p] = "idle"]
  /\ isSubmitting' = [isSubmitting EXCEPT ![p] = FALSE]
  /\ lastTest' = NoTest
  /\ UNCHANGED <<fieldValue, testParams, saveParams, saveSuccess, storedKey>>
  /\ UNCHANGED <<popupState, apiKeysVars, onboardingVars>>

TestResults == {"valid", "invalid", "failed"}

\* the settings view opens on a backend that stores no provider config
InitProviderForm == PopupInit /\ OtherViewsIdle

NextProviderForm ==
  \/ \E p \in Providers : ProviderConfigFetched(p)
  \/ \E p \in Providers, value \in FieldValues : HandleChange(p, value)
  \/ \E p \in Providers : HandleSubmit(p)
  \/ \E p \in Providers, result \in TestResults : TestReturns(p, result)
  \/ \E p \in Providers : SaveSucceeds(p)
  \/ \E p \in Providers : SaveFails(p)

ProviderFormSpec == InitProviderForm /\ [][NextProviderForm]_vars

\* C28: a form sends its save command only after the test command for the
\* very values being saved has returned valid; when the test returns invalid
\* or fails no save is sent and the stored configuration stays as it was.
C28_SaveOnlyAfterValidTestOfSameValues ==
  [][/\ \A p \in Providers :
          (submitPc[p] # "saving" /\ submitPc'[p] = "saving") =>
            lastTest' = [provider |-> p, value |-> saveParams'[p], result |-> "valid"]
     /\ lastTest'.result \in {"invalid", "failed"} =>
          /\ submitPc'[lastTest'.provider] = "idle"
          /\ storedKey' = storedKey]_vars


\* ===================================================== the onboarding wizard
STEP_ROUTES ==
  [step \in Steps |->
    CASE step = "welcome" -> "/onboarding/welcome"
      [] step = "accessibility" -> "/onboarding/accessibility"
      [] step = "api_keys" -> "/onboarding/api-keys"
      [] step = "fn_hold" -> "/onboarding/fn-hold"
      [] step = "fn_space" -> "/onboarding/fn-space"
      [] step = "complete" -> "/onboarding/complete"]

stepToRoute(step) == STEP_ROUTES[step]

\* Array.prototype.indexOf: the 0-based index of the first match, or -1
indexOf(array, item) ==
  IF \E i \in 1..Len(array) : array[i] = item
    THEN (CHOOSE i \in 1..Len(array) :
            array[i] = item /\ \A j \in 1..(i - 1) : array[j] # item) - 1
    ELSE -1

\* array[i] with a 0-based index
At(array, i) == array[i + 1]

getNextStepWraps(currentStep) ==
  LET currentIndex == indexOf(STEP_ORDER, currentStep)
  IN IF currentIndex = -1 THEN NullStep
     ELSE At(STEP_ORDER, (currentIndex + 1) % Len(STEP_ORDER))
getNextStep(currentStep) ==
  LET currentIndex == indexOf(STEP_ORDER, currentStep)
  IN IF currentIndex = -1 \/ currentIndex >= Len(STEP_ORDER) - 1 THEN NullStep
     ELSE At(STEP_ORDER, currentIndex + 1)

getPreviousStep(currentStep) ==
  LET currentIndex == indexOf(STEP_ORDER, currentStep)
  IN IF currentIndex <= 0 THEN NullStep
     ELSE At(STEP_ORDER, currentIndex - 1)

\* the step whose component the router shows
ShownStep == CHOOSE step \in Steps : stepToRoute(step) = route

\* nextDisabled of a step's component when it mounts: the two training steps
\* start incomplete, the API-keys step depends on the active provider
NextDisabledAtMount(step) ==
  CASE step \in {"fn_hold", "fn_space"} -> {TRUE}
    [] step = "api_keys" -> BOOLEAN
    [] OTHER -> {FALSE}

\* steps whose component has a Back button / a Next button that calls goNext
HasBack(step) == step \notin {"welcome", "complete"}
HasNext(step) == step # "complete"

\* goToStep after save-onboarding-step has settled: mutateAsync throws on an
\* error, so navigate is reached on success only
RouteAfterSaveAlways(step, ok) == stepToRoute(step)
RouteAfterSave(step, ok) == IF ok THEN stepToRoute(step) ELSE route

\* the onboardingConfig query answers, first or after an invalidation; the
\* index route redirects to the saved step
OnboardingConfigFetched ==
  /\ onboardingConfig # storedStep
  /\ onboardingConfig' = storedStep
  /\ IF route = IndexRoute
       THEN /\ route' = stepToRoute(storedStep)
            /\ nextDisabled' \in NextDisabledAtMount(storedStep)
       ELSE UNCHANGED <<route, nextDisabled>>
  /\ navSettled' = NoNavSettle
  /\ UNCHANGED <<storedStep, navCall>>
  /\ UNCHANGED <<popupState, apiKeysVars, formVars>>

\* the user completes what the step shown asks for
StepCompleted ==
  /\ route # IndexRoute
  /\ nextDisabled
  /\ nextDisabled' = FALSE
  /\ navSettled' = NoNavSettle
  /\ UNCHANGED <<route, storedStep, onboardingConfig, navCall>>
  /\ UNCHANGED <<popupState, apiKeysVars, formVars>>

\* the Next button: goNext(step shown)
GoNext ==
  /\ route # IndexRoute
  /\ HasNext(ShownStep)
  /\ navCall = NoNav
  /\ ~nextDisabled
  /\ getNextStep(ShownStep) # NullStep
  /\ navCall' = [step |-> getNextStep(ShownStep), from |-> ShownStep, dir |-> "next"]
  /\ navSettled' = NoNavSettle
  /\ UNCHANGED <<route, storedStep, onboardingConfig, nextDisabled>>
  /\ UNCHANGED <<popupState, apiKeysVars, formVars>>

\* the Back button: goBack(step shown)
GoBack ==
  /\ route # IndexRoute
  /\ HasBack(ShownStep)
  /\ navCall = NoNav
  /\ getPreviousStep(ShownStep) # NullStep
  /\ navCall' = [step |-> getPreviousStep(ShownStep), from |-> ShownStep, dir |-> "back"]
  /\ navSettled' = NoNavSettle
  /\ UNCHANGED <<route, storedStep, onboardingConfig, nextDisabled>>
  /\ UNCHANGED <<popupState, apiKeysVars, formVars>>

\* save-onboarding-step succeeds: the backend stores the step, goToStep
\* navigates and the step's component mounts
SaveStepSucceeds ==
  /\ navCall # NoNav
  /\ storedStep' = navCall.step
  /\ route' = RouteAfterSave(navCall.step, TRUE)
  /\ nextDisabled' \in NextDisabledAtMount(navCall.step)
  /\ navCall' = NoNav
  /\ navSettled' = [result |-> "ok", step |-> navCall.step, from |-> navCall.from,
                    dir |-> navCall.dir]
  /\ UNCHANGED onboardingConfig
  /\ UNCHANGED <<popupState, apiKeysVars, formVars>>

\* ... or fails: goToStep rejects
SaveStepFails ==
  /\ navCall # NoNav
  /\ route' = RouteAfterSave(navCall.step, FALSE)
  /\ navCall' = NoNav
  /\ navSettled' = [result |-> "failed", step |-> navCall.step, from |-> navCall.from,
                    dir |-> navCall.dir]
  /\ UNCHANGED <<storedStep, onboardingConfig, nextDisabled>>
  /\ UNCHANGED <<popupState, apiKeysVars, formVars>>

\* the onboarding window opens with any step saved
InitOnboarding ==
  /\ PopupInit
  /\ ApiKeysIdle
  /\ storedProvider = NoProvider
  /\ storedConfig = [p \in Providers |-> FALSE]
  /\ FormIdle
  /\ storedKey = [p \in Providers |-> NoKey]
  /\ OnboardingIdle
  /\ storedStep \in Steps

NextOnboarding ==
  \/ OnboardingConfigFetched
  \/ StepCompleted
  \/ GoNext
  \/ GoBack
  \/ SaveStepSucceeds
  \/ SaveStepFails

OnboardingSpec == InitOnboarding /\ [][NextOnboarding]_vars

\* C29: the wizard moves to a step's route only when save-onboarding-step for
\* that step has succeeded; when the save fails goToStep, goNext and goBack
\* do not navigate and the route stays as it was.
C29_NavigateOnlyAfterSavedStep ==
  [][/\ (route # IndexRoute /\ route' # route) =>
          /\ navSettled'.result = "ok"
          /\ route' = stepToRoute(navSettled'.step)
          /\ storedStep' = navSettled'.step
     /\ navSettled'.result = "failed" => route' = route]_vars

C29_Witness ==
  /\ navSettled = [result |-> "failed", step |-> "fn_hold", from |-> "api_keys",
                   dir |-> "next"]
  /\ route = stepToRoute("api_keys")
  /\ storedStep = "api_keys"

\* C30: over the six steps getNextStep and getPreviousStep are inverse within
\* the order welcome, accessibility, api_keys, fn_hold, fn_space, complete:
\* previous-of-next is the step itself except at complete, next-of-previous
\* is the step itself except at welcome, the next of complete and the
\* previous of welcome are null; a step the wizard went to is undone by the
\* opposite function.
C30_NextAndPreviousAreInverse ==
  /\ LET order == <<"welcome", "accessibility", "api_keys", "fn_hold", "fn_space",
                    "complete">>
     IN \A i \in 1..5 : getNextStep(order[i]) = order[i + 1]
  /\ \A s \in Steps \ {"complete"} : getPreviousStep(getNextStep(s)) = s
  /\ \A s \in Steps \ {"welcome"} : getNextStep(getPreviousStep(s)) = s
  /\ getNextStep("complete") = NullStep
  /\ getPreviousStep("welcome") = NullStep
  /\ navCall.dir = "next" => getPreviousStep(navCall.step) = navCall.from
  /\ navCall.dir = "back" => getNextStep(navCall.step) = navCall.from

C30_Witness ==
  /\ navCall = [step |-> "fn_hold", from |-> "fn_space", dir |-> "back"]
  /\ route = stepToRoute("fn_space")
  /\ storedStep = "fn_space"

====
